---- MODULE Spec2Model ----
(***************************************************************************)
(* Model of the Icinga Director API client: the endpoint resolver          *)
(* (Objects._get_endpoint), the selector builder (Objects._get_selector,   *)
(* Objects._get_serviceapplyrule_id), the request executor (Base._request) *)
(* and the five public operations of Objects.                              *)
(*                                                                         *)
(* Python strings that the code inspects (object types, names, url paths)  *)
(* are sequences of one-character strings, so that lower(), replace(),     *)
(* count(), split(), startswith() and endswith() are computed.  Optional   *)
(* arguments are None (the empty tuple) or Some(x) (the one-tuple <<x>>).  *)
(* Dictionaries are functions from keys to values.                         *)
(***************************************************************************)
EXTENDS Integers, Sequences, FiniteSets, TLC

(* pc         where the running operation stands: "idle" (none running),     *)
(*            "lookup" (the request of _get_serviceapplyrule_id is in       *)
(*            flight), "request" (the operation's own request is in         *)
(*            flight), "done" (the operation has returned or raised)        *)
(* call       the operation and its arguments                               *)
(* endpoint   the local variable endpoint (object_type_url_path in list)    *)
(* requests   the requests the running operation passed to session.post     *)
(* response   the response received last by the running operation           *)
(* result     what the operation returned or raised                         *)
(* earlier_id the id the last completed ServiceApplyRule call resolved, 0   *)
(*            before the first; the program keeps no such state, the        *)
(*            variable records the history the no-caching property is       *)
(*            about                                                         *)
(*                                                                          *)
(* Not modelled: the session of Base._create_session (credentials, headers, *)
(* the X-HTTP-Method-Override header repeats the method of the request),    *)
(* urljoin with the manager's url, logging.                                 *)
VARIABLES pc, call, endpoint, requests, response, result, earlier_id

vars == <<pc, call, endpoint, requests, response, result, earlier_id>>

-----------------------------------------------------------------------------
(* Bounds of the model *)

MaxNameLen == 2

MaxObjects == 2

-----------------------------------------------------------------------------
(* Python str methods *)

UpperCase == <<"A","B","C","D","E","F","G","H","I","J","K","L","M",
               "N","O","P","Q","R","S","T","U","V","W","X","Y","Z">>

LowerCase == <<"a","b","c","d","e","f","g","h","i","j","k","l","m",
               "n","o","p","q","r","s","t","u","v","w","x","y","z">>

LowerChar(c) ==
    IF \E i \in 1..Len(UpperCase) : UpperCase[i] = c
    THEN LowerCase[CHOOSE i \in 1..Len(UpperCase) : UpperCase[i] = c]
    ELSE c

lower(s) == [i \in 1..Len(s) |-> LowerChar(s[i])]

startswith(s, p) == Len(s) >= Len(p) /\ SubSeq(s, 1, Len(p)) = p

endswith(s, p) == Len(s) >= Len(p) /\ SubSeq(s, Len(s) - Len(p) + 1, Len(s)) = p

RECURSIVE replace(_, _, _)
replace(s, old, new) ==
    IF Len(s) < Len(old) THEN s
    ELSE IF startswith(s, old)
         THEN new \o replace(SubSeq(s, Len(old) + 1, Len(s)), old, new)
         ELSE <<Head(s)>> \o replace(Tail(s), old, new)

RECURSIVE count(_, _)
count(s, c) ==
    IF s = <<>> THEN 0
    ELSE (IF Head(s) = c THEN 1 ELSE 0) + count(Tail(s), c)

RECURSIVE split(_, _)
split(s, c) ==
    IF \A i \in 1..Len(s) : s[i] # c THEN <<s>>
    ELSE LET i == CHOOSE j \in 1..Len(s) :
                      s[j] = c /\ \A k \in 1..(j - 1) : s[k] # c
         IN <<SubSeq(s, 1, i - 1)>> \o split(SubSeq(s, i + 1, Len(s)), c)

Digits == <<"0","1","2","3","4","5","6","7","8","9">>

RECURSIVE str(_)
str(n) == IF n < 10 THEN <<Digits[n + 1]>>
          ELSE str(n \div 10) \o <<Digits[(n % 10) + 1]>>

-----------------------------------------------------------------------------
(* Optional values and dictionaries *)

None == <<>>

Some(x) == <<x>>

EmptyDict == <<>>

DictMerge(p, a) ==
    [k \in (DOMAIN p) \cup (DOMAIN a) |-> IF k \in DOMAIN a THEN a[k] ELSE p[k]]

DictSet(p, key, v) ==
    [k \in (DOMAIN p) \cup {key} |-> IF k = key THEN v ELSE p[k]]

-----------------------------------------------------------------------------
(* Words the object types and url paths are made of *)

wCommand == <<"C","o","m","m","a","n","d">>
wEndpoint == <<"E","n","d","p","o","i","n","t">>
wHost == <<"H","o","s","t">>
wGroup == <<"G","r","o","u","p">>
wNotification == <<"N","o","t","i","f","i","c","a","t","i","o","n">>
wService == <<"S","e","r","v","i","c","e">>
wApplyRule == <<"A","p","p","l","y","R","u","l","e">>
wTimeperiod == <<"T","i","m","e","p","e","r","i","o","d">>
wUser == <<"U","s","e","r">>
wZone == <<"Z","o","n","e">>
wTemplate == <<"T","e","m","p","l","a","t","e">>

Command == wCommand
CommandTemplate == wCommand \o wTemplate
Endpoint == wEndpoint
Host == wHost
HostGroup == wHost \o wGroup
HostTemplate == wHost \o wTemplate
Notification == wNotification
NotificationTemplate == wNotification \o wTemplate
Service == wService
ServiceApplyRule == wService \o wApplyRule
ServiceGroup == wService \o wGroup
ServiceTemplate == wService \o wTemplate
Timeperiod == wTimeperiod
TimeperiodTemplate == wTimeperiod \o wTemplate
User == wUser
UserGroup == wUser \o wGroup
UserTemplate == wUser \o wTemplate
Zone == wZone

allowed_types ==
    <<Command, CommandTemplate, Endpoint, Host, HostGroup, HostTemplate,
      Notification, NotificationTemplate, Service, ServiceApplyRule,
      ServiceGroup, ServiceTemplate, Timeperiod, TimeperiodTemplate,
      User, UserGroup, UserTemplate, Zone>>

AllowedTypes == {allowed_types[i] : i \in 1..Len(allowed_types)}

base_url_path == <<"i","c","i","n","g","a","w","e","b","2","/",
                   "d","i","r","e","c","t","o","r">>

-----------------------------------------------------------------------------
(* Outcomes of a function: a value, or the exception it raises *)

Ok(v) == [err |-> "", val |-> v]

Err(e) == [err |-> e, val |-> <<>>]

-----------------------------------------------------------------------------
(* Objects._get_endpoint *)

(* list_endpoint with the plural 's' of the template paths forgotten *)
list_endpoint_singular(object_type) ==
    IF startswith(object_type, wCommand)
    THEN <<"c","o","m","m","a","n","d","s">>
    ELSE IF endswith(object_type, wTemplate)
    THEN replace(lower(object_type), lower(wTemplate),
                 <<"/","t","e","m","p","l","a","t","e","s">>)
    ELSE IF object_type \in {Notification, ServiceApplyRule}
    THEN lower(replace(object_type, wApplyRule, <<>>))
         \o <<"s","/","a","p","p","l","y","r","u","l","e","s">>
    ELSE lower(object_type) \o <<"s">>

(* the path of mode 'list' *)
list_endpoint(object_type) ==
    IF startswith(object_type, wCommand)
    THEN <<"c","o","m","m","a","n","d","s">>
    ELSE IF endswith(object_type, wTemplate)
    THEN replace(lower(object_type), lower(wTemplate),
                 <<"s","/","t","e","m","p","l","a","t","e","s">>)
    ELSE IF object_type \in {Notification, ServiceApplyRule}
    THEN lower(replace(object_type, wApplyRule, <<>>))
         \o <<"s","/","a","p","p","l","y","r","u","l","e","s">>
    ELSE lower(object_type) \o <<"s">>

(* object_endpoint that strips 'applyrule' only *)
object_endpoint_keeps_template(object_type) ==
    replace(lower(object_type), lower(wApplyRule), <<>>)

(* the path of the modes 'create', 'delete', 'get' and 'modify' *)
object_endpoint(object_type) ==
    replace(replace(lower(object_type), lower(wTemplate), <<>>),
            lower(wApplyRule), <<>>)

(* get_endpoint that validates the object type without regard to case *)
get_endpoint_anycase(object_type, mode) ==
    IF lower(object_type) \notin {lower(t) : t \in AllowedTypes}
    THEN Err("UnsupportedObjectType")
    ELSE IF mode = "list" THEN Ok(list_endpoint(object_type))
    ELSE IF mode \in {"create", "delete", "get", "modify"}
    THEN Ok(object_endpoint(object_type))
    ELSE Err("UnsupportedMode")

get_endpoint(object_type, mode) ==
    IF object_type \notin AllowedTypes THEN Err("UnsupportedObjectType")
    ELSE IF mode = "list" THEN Ok(list_endpoint(object_type))
    ELSE IF mode \in {"create", "delete", "get", "modify"}
    THEN Ok(object_endpoint(object_type))
    ELSE Err("UnsupportedMode")

-----------------------------------------------------------------------------
(* Objects._get_serviceapplyrule_id *)

(* the request _get_serviceapplyrule_id sends *)
serviceapplyrule_request ==
    [method |-> "GET",
     url_path |-> base_url_path \o <<"/">>
                  \o <<"s","e","r","v","i","c","e","a","p","p","l","y","r","u","l","e","s">>,
     json |-> None]

(* the list comprehension over the 'objects' of the response *)
applyrules(objects, name) == SelectSeq(objects, LAMBDA a : a.object_name = name)

(* _get_serviceapplyrule_id that takes a match whenever there is one *)
get_serviceapplyrule_id_any(name, objects) ==
    IF Len(applyrules(objects, name)) >= 1
    THEN Ok(applyrules(objects, name)[Len(applyrules(objects, name))].id)
    ELSE Err("AmbiguousOrMissingIdentity")

(* _get_serviceapplyrule_id that reuses the id an earlier call resolved *)
get_serviceapplyrule_id_cached(name, objects) ==
    IF earlier_id # 0 THEN Ok(earlier_id)
    ELSE IF Len(applyrules(objects, name)) = 1
    THEN Ok(applyrules(objects, name)[1].id)
    ELSE Err("AmbiguousOrMissingIdentity")

(* what _get_serviceapplyrule_id does with the objects of the response *)
get_serviceapplyrule_id(name, objects) ==
    IF Len(applyrules(objects, name)) = 1
    THEN Ok(applyrules(objects, name)[1].id)
    ELSE Err("AmbiguousOrMissingIdentity")

-----------------------------------------------------------------------------
(* Objects._get_selector; id is what _get_serviceapplyrule_id returned, read
   only for ServiceApplyRule *)

(* _get_selector that rejects only a name without separator *)
get_selector_lenient(object_type, name, id) ==
    IF object_type = Service THEN
        IF count(name, "!") < 1 THEN Err("MalformedCompositeName")
        ELSE Ok(<<"h","o","s","t","=">> \o split(name, "!")[1]
                \o <<"&","n","a","m","e","=">> \o split(name, "!")[2])
    ELSE IF object_type = ServiceApplyRule
    THEN Ok(<<"i","d","=">> \o str(id))
    ELSE Ok(<<"n","a","m","e","=">> \o name)

get_selector(object_type, name, id) ==
    IF object_type = Service THEN
        IF count(name, "!") # 1 THEN Err("MalformedCompositeName")
        ELSE Ok(<<"h","o","s","t","=">> \o split(name, "!")[1]
                \o <<"&","n","a","m","e","=">> \o split(name, "!")[2])
    ELSE IF object_type = ServiceApplyRule
    THEN Ok(<<"i","d","=">> \o str(id))
    ELSE Ok(<<"n","a","m","e","=">> \o name)

-----------------------------------------------------------------------------
(* Base._request *)

(* response bodies: a text that is no JSON document, a JSON object without
   an 'objects' member, a JSON object whose 'objects' member is a list *)
NotJson == [kind |-> "text", objects |-> <<>>]

Envelope == [kind |-> "object", objects |-> <<>>]

Listing(l) == [kind |-> "listing", objects |-> l]

NoValue == [kind |-> "none", objects |-> <<>>]

NoResult == [kind |-> "none", error |-> "", status |-> 0, text |-> NoValue,
             value |-> NoValue]

Return(v) == [kind |-> "return", error |-> "", status |-> 0, text |-> NoValue,
              value |-> v]

Raise(e) == [kind |-> "raise", error |-> e, status |-> 0, text |-> NoValue,
             value |-> NoValue]

(* response.json() *)
json(body) == IF body.kind = "text" THEN Err("JSONDecodeError") ELSE Ok(body)

(* the request passed to session.post: the json argument is set only for a
   truthy payload *)
request_args(method, url_path, payload) ==
    [method |-> method, url_path |-> url_path,
     json |-> IF Len(payload) = 0 \/ DOMAIN payload[1] = {} THEN None ELSE payload]

(* _request without the check of the status *)
request_result_unchecked(status, body) ==
    IF json(body).err # "" THEN Raise(json(body).err)
    ELSE Return(json(body).val)

(* what _request does with the response *)
request_result(status, body) ==
    IF ~(200 <= status /\ status <= 299) THEN
        IF json(body).err # "" THEN Raise(json(body).err)
        ELSE [kind |-> "raise", error |-> "RequestFailed", status |-> status,
              text |-> body, value |-> NoValue]
    ELSE IF json(body).err # "" THEN Raise(json(body).err)
    ELSE Return(json(body).val)

(* response['objects'] *)
objects_of(res) ==
    IF res.kind # "return" THEN res
    ELSE IF res.value.kind # "listing" THEN Raise("KeyError")
    ELSE res

-----------------------------------------------------------------------------
(* Inputs: the arguments of the public operations and the server's responses *)

OtherTypes == {lower(Host), wTemplate}

Types == AllowedTypes \cup OtherTypes

NameChars == {"a", "!"}

Names == UNION {[1..k -> NameChars] : k \in 0..MaxNameLen}

TemplateChoices == <<None, Some(<<>>), Some(<<"generic-host">>)>>

AttrChoices ==
    <<None,
      Some(EmptyDict),
      Some([address |-> "127.0.0.1"]),
      Some([object_name |-> <<"x">>, object_type |-> "apply",
            imports |-> <<"other">>])>>

Queries == {None, Some(<<>>), Some(<<"a">>)}

Statuses == {199, 200, 299, 300, 404, 500}

Entries ==
    {[object_name |-> <<"a">>, id |-> 7, object_type |-> "object"],
     [object_name |-> <<"a">>, id |-> 42, object_type |-> "template"],
     [object_name |-> <<"A">>, id |-> 7, object_type |-> "template"],
     [object_name |-> <<"A">>, id |-> 42, object_type |-> "object"]}

Listings == UNION {[1..k -> Entries] : k \in 0..MaxObjects}

Bodies == {NotJson, Envelope} \cup {Listing(l) : l \in Listings}

(* a listing endpoint answers with any body; an object endpoint answers with
   a text or with the envelope of one object *)
ResponseBodies(op) == IF op = "list" THEN Bodies ELSE {NotJson, Envelope}

-----------------------------------------------------------------------------
(* The public operations of Objects *)

Call(op, object_type, name, templates, attrs, query) ==
    [op |-> op, object_type |-> object_type, name |-> name,
     templates |-> templates, attrs |-> attrs, query |-> query]

NoCall == Call("none", <<>>, <<>>, None, None, None)

(* url_path = f'{self.base_url_path}/{endpoint}?{selector}' *)
selected_url_path(ep, selector) ==
    base_url_path \o <<"/">> \o ep \o <<"?">> \o selector

(* the _request call that ends get, modify and delete *)
operation_request(c, ep, selector) ==
    IF c.op = "get" THEN request_args("GET", selected_url_path(ep, selector), None)
    ELSE IF c.op = "modify"
    THEN request_args("POST", selected_url_path(ep, selector), c.attrs)
    ELSE request_args("DELETE", selected_url_path(ep, selector), None)

(* get, modify and delete up to their first request or their failure *)
begin_selected(c) ==
    LET ep == get_endpoint(c.object_type, c.op)
        sel == get_selector(c.object_type, c.name, 0)
    IN /\ call' = c
       /\ response' = None
       /\ UNCHANGED earlier_id
       /\ IF ep.err # ""
          THEN /\ endpoint' = <<>>
               /\ requests' = <<>>
               /\ pc' = "done"
               /\ result' = Raise(ep.err)
          ELSE /\ endpoint' = ep.val
               /\ IF c.object_type = ServiceApplyRule
                  THEN /\ requests' = <<serviceapplyrule_request>>
                       /\ pc' = "lookup"
                       /\ result' = NoResult
                  ELSE IF sel.err # ""
                  THEN /\ requests' = <<>>
                       /\ pc' = "done"
                       /\ result' = Raise(sel.err)
                  ELSE /\ requests' = <<operation_request(c, ep.val, sel.val)>>
                       /\ pc' = "request"
                       /\ result' = NoResult

Get(object_type, name) ==
    /\ pc = "idle"
    /\ begin_selected(Call("get", object_type, name, None, None, None))

Modify(object_type, name, attrs) ==
    /\ pc = "idle"
    /\ begin_selected(Call("modify", object_type, name, None, attrs, None))

Delete(object_type, name) ==
    /\ pc = "idle"
    /\ begin_selected(Call("delete", object_type, name, None, None, None))

(* the url path list requests *)
list_url_path(ep, query) ==
    IF Len(query) = 1 /\ query[1] # <<>>
    THEN base_url_path \o <<"/">> \o ep \o <<"?","q","=">> \o query[1]
    ELSE base_url_path \o <<"/">> \o ep

List(object_type, query) ==
    LET ep == get_endpoint(object_type, "list")
    IN /\ pc = "idle"
       /\ call' = Call("list", object_type, <<>>, None, None, query)
       /\ response' = None
       /\ UNCHANGED earlier_id
       /\ IF ep.err # ""
          THEN /\ endpoint' = <<>>
               /\ requests' = <<>>
               /\ pc' = "done"
               /\ result' = Raise(ep.err)
          ELSE /\ endpoint' = ep.val
               /\ requests' = <<request_args("GET", list_url_path(ep.val, query), None)>>
               /\ pc' = "request"
               /\ result' = NoResult

(* the payload of create with the attrs merged after the imports are set *)
create_payload_attrs_last(object_type, name, templates, attrs) ==
    LET payload == [object_name |-> name,
                    object_type |-> IF endswith(object_type, wTemplate)
                                    THEN "template" ELSE "object"]
        imported == IF Len(templates) = 1 /\ templates[1] # <<>>
                    THEN DictSet(payload, "imports", templates[1]) ELSE payload
    IN IF Len(attrs) = 1 /\ DOMAIN attrs[1] # {}
       THEN DictMerge(imported, attrs[1]) ELSE imported

(* the payload create builds *)
create_payload(object_type, name, templates, attrs) ==
    LET payload == [object_name |-> name,
                    object_type |-> IF endswith(object_type, wTemplate)
                                    THEN "template" ELSE "object"]
        merged == IF Len(attrs) = 1 /\ DOMAIN attrs[1] # {}
                  THEN DictMerge(payload, attrs[1]) ELSE payload
    IN IF Len(templates) = 1 /\ templates[1] # <<>>
       THEN DictSet(merged, "imports", templates[1]) ELSE merged

Create(object_type, name, templates, attrs) ==
    LET ep == get_endpoint(object_type, "create")
    IN /\ pc = "idle"
       /\ call' = Call("create", object_type, name, templates, attrs, None)
       /\ response' = None
       /\ UNCHANGED earlier_id
       /\ IF ep.err # ""
          THEN /\ endpoint' = <<>>
               /\ requests' = <<>>
               /\ pc' = "done"
               /\ result' = Raise(ep.err)
          ELSE /\ endpoint' = ep.val
               /\ requests' = <<request_args("POST", base_url_path \o <<"/">> \o ep.val,
                                  Some(create_payload(object_type, name, templates, attrs)))>>
               /\ pc' = "request"
               /\ result' = NoResult

(* the response to the request of _get_serviceapplyrule_id arrives: the
   selector is built and the operation's request is sent *)
LookupResponse(status, body) ==
    LET res == objects_of(request_result(status, body))
        id == get_serviceapplyrule_id(call.name, res.value.objects)
        sel == get_selector(call.object_type, call.name, id.val)
    IN /\ pc = "lookup"
       /\ response' = Some([status |-> status, body |-> body])
       /\ UNCHANGED <<call, endpoint, earlier_id>>
       /\ IF res.kind = "raise"
          THEN /\ pc' = "done"
               /\ result' = res
               /\ UNCHANGED requests
          ELSE IF id.err # ""
          THEN /\ pc' = "done"
               /\ result' = Raise(id.err)
               /\ UNCHANGED requests
          ELSE /\ pc' = "request"
               /\ requests' = Append(requests, operation_request(call, endpoint, sel.val))
               /\ UNCHANGED result

(* what list returns from the response *)
list_result(object_type, res) ==
    IF objects_of(res).kind # "return" THEN objects_of(res)
    ELSE IF object_type = Command
    THEN Return([kind |-> "list",
                 objects |-> SelectSeq(res.value.objects,
                                       LAMBDA c : c.object_type = "object")])
    ELSE IF object_type = CommandTemplate
    THEN Return([kind |-> "list",
                 objects |-> SelectSeq(res.value.objects,
                                       LAMBDA c : c.object_type = "template")])
    ELSE Return([kind |-> "list", objects |-> res.value.objects])

(* the response to the operation's request arrives and the operation ends *)
OpResponse(status, body) ==
    /\ pc = "request"
    /\ body \in ResponseBodies(call.op)
    /\ pc' = "done"
    /\ result' = IF call.op = "list"
                 THEN list_result(call.object_type, request_result(status, body))
                 ELSE request_result(status, body)
    /\ response' = Some([status |-> status, body |-> body])
    /\ earlier_id' = IF Len(requests) = 2
                     THEN get_serviceapplyrule_id(call.name, response[1].body.objects).val
                     ELSE earlier_id
    /\ UNCHANGED <<call, endpoint, requests>>

(* the operation has returned or raised: its arguments, its local variables
   and its outcome are handed back and dropped *)
Finish ==
    /\ pc = "done"
    /\ pc' = "idle"
    /\ call' = NoCall
    /\ endpoint' = <<>>
    /\ requests' = <<>>
    /\ response' = None
    /\ result' = NoResult
    /\ UNCHANGED earlier_id

-----------------------------------------------------------------------------

Init ==
    /\ pc = "idle"
    /\ call = NoCall
    /\ endpoint = <<>>
    /\ requests = <<>>
    /\ response = None
    /\ result = NoResult
    /\ earlier_id = 0

Next ==
    \/ \E t \in Types, n \in Names : Get(t, n)
    \/ \E t \in Types, q \in Queries : List(t, q)
    \/ \E t \in Types, n \in Names, i \in 1..Len(TemplateChoices),
          j \in 1..Len(AttrChoices) : Create(t, n, TemplateChoices[i], AttrChoices[j])
    \/ \E t \in Types, n \in Names, j \in 1..Len(AttrChoices) :
          Modify(t, n, AttrChoices[j])
    \/ \E t \in Types, n \in Names : Delete(t, n)
    \/ \E s \in Statuses, b \in Bodies : LookupResponse(s, b)
    \/ \E s \in Statuses, b \in Bodies : OpResponse(s, b)
    \/ Finish

Spec == Init /\ [][Next]_vars

-----------------------------------------------------------------------------
(* Vocabulary of the properties *)

PublicOps == {"list", "get", "create", "modify", "delete"}

SelectedOps == {"get", "modify", "delete"}

(* the call is get, modify or delete on ServiceApplyRule *)
ApplyRuleCall == call.op \in SelectedOps /\ call.object_type = ServiceApplyRule

(* the positions of the separator in a name *)
Separators(name) == {i \in 1..Len(name) : name[i] = "!"}

(* the positions of the objects of a listing that carry the name *)
Matching(objects, name) == {i \in 1..Len(objects) : objects[i].object_name = name}

Success(status) == status \in 200..299

-----------------------------------------------------------------------------
(* C1: for every object type outside the taxonomy, each of the five public
   operations fails with the unsupported-object-type error, and no request
   (neither the identifier lookup nor the operation's request) was issued
   and no response received when it fails, whatever the other arguments. *)
C1_UnsupportedTypeFailsBeforeNetwork ==
    (call.op \in PublicOps /\ call.object_type \notin AllowedTypes) =>
        /\ pc = "done"
        /\ result = Raise("UnsupportedObjectType")
        /\ requests = <<>>
        /\ response = None

C1_Witness ==
    /\ pc = "done"
    /\ call.op = "modify"
    /\ call.object_type = <<"h","o","s","t">>
    /\ Len(call.attrs) = 1
    /\ result.error = "UnsupportedObjectType"
    /\ requests = <<>>

-----------------------------------------------------------------------------
(* C2: whenever a response with a status outside 200-299 has been received,
   whatever its body, the operation has failed with the request-failure
   error carrying that status and the body verbatim and has returned no
   JSON; a response to the operation's request with a status in 200-299 and
   a JSON body makes get, create, modify and delete return that body. *)
C2_NonSuccessRaisesRequestFailed ==
    (pc = "done" /\ Len(response) = 1) =>
        IF ~Success(response[1].status)
        THEN result = [kind |-> "raise", error |-> "RequestFailed",
                       status |-> response[1].status, text |-> response[1].body,
                       value |-> NoValue]
        ELSE (/\ call.op # "list"
              /\ ~(ApplyRuleCall /\ Len(requests) = 1)
              /\ response[1].body.kind # "text") => result = Return(response[1].body)

-----------------------------------------------------------------------------
(* C3: for get, modify and delete on Service: when the name holds exactly
   one "!", the one request of the call carries the selector
   host=<text before the "!">&name=<text after it>; when it holds none or
   more than one, the call has failed with the malformed-composite-name
   error and no request was issued. *)
C3_ServiceSelector ==
    (call.op \in SelectedOps /\ call.object_type = Service) =>
        IF Cardinality(Separators(call.name)) = 1
        THEN LET i == CHOOSE j \in Separators(call.name) : TRUE
             IN /\ pc \in {"request", "done"}
                /\ Len(requests) = 1
                /\ requests[1].url_path =
                       <<"i","c","i","n","g","a","w","e","b","2","/","d","i","r","e","c","t","o","r","/","s","e","r","v","i","c","e","?","h","o","s","t","=">>
                       \o SubSeq(call.name, 1, i - 1)
                       \o <<"&","n","a","m","e","=">>
                       \o SubSeq(call.name, i + 1, Len(call.name))
        ELSE /\ pc = "done"
             /\ result = Raise("MalformedCompositeName")
             /\ requests = <<>>
             /\ response = None

C3_Witness ==
    /\ pc = "request"
    /\ call.op = "get"
    /\ call.object_type = Service
    /\ call.name = <<"a", "!">>
    /\ requests[1].url_path = <<"i","c","i","n","g","a","w","e","b","2","/","d","i","r","e","c","t","o","r","/","s","e","r","v","i","c","e","?","h","o","s","t","=","a","&","n","a","m","e","=">>

-----------------------------------------------------------------------------
(* C4: for get, modify and delete on ServiceApplyRule: the operation's
   request is sent only when the listing of the lookup holds exactly one
   object whose object_name equals the name, and its selector is id=<the id
   of that object>; when a listing was received that holds no such object
   or more than one, the call has failed with the
   ambiguous-or-missing-identity error and the operation's request was not
   sent. *)
C4_ApplyRuleIdentity ==
    ApplyRuleCall =>
        /\ pc = "request" =>
              /\ Len(requests) = 2
              /\ Len(response) = 1
              /\ response[1].body.kind = "listing"
              /\ Cardinality(Matching(response[1].body.objects, call.name)) = 1
              /\ LET i == CHOOSE j \in Matching(response[1].body.objects, call.name) : TRUE
                 IN requests[2].url_path =
                        <<"i","c","i","n","g","a","w","e","b","2","/","d","i","r","e","c","t","o","r","/","s","e","r","v","i","c","e","?","i","d","=">>
                        \o str(response[1].body.objects[i].id)
              /\ requests[2].method =
                     (IF call.op = "get" THEN "GET"
                      ELSE IF call.op = "modify" THEN "POST" ELSE "DELETE")
        /\ (/\ pc = "done"
            /\ Len(requests) = 1
            /\ Len(response) = 1
            /\ Success(response[1].status)
            /\ response[1].body.kind = "listing") =>
              /\ Cardinality(Matching(response[1].body.objects, call.name)) # 1
              /\ result = Raise("AmbiguousOrMissingIdentity")

C4_Witness ==
    /\ pc = "request"
    /\ call.op = "delete"
    /\ call.object_type = ServiceApplyRule
    /\ call.name = <<"a">>
    /\ Len(response[1].body.objects) = 2
    /\ response[1].body.objects[1].object_name = <<"A">>
    /\ requests[2].url_path = <<"i","c","i","n","g","a","w","e","b","2","/","d","i","r","e","c","t","o","r","/","s","e","r","v","i","c","e","?","i","d","=","4","2">>

-----------------------------------------------------------------------------
(* C5 as stated: in the modes create, get, modify and delete the endpoint
   of Command and of CommandTemplate is 'commands'. *)
C5_CommandsPath ==
    (call.op \in {"create", "get", "modify", "delete"}
     /\ call.object_type \in {Command, CommandTemplate}) =>
        endpoint = <<"c","o","m","m","a","n","d","s">>

(* C5 as amended: in the modes create, get, modify and delete the endpoint
   of Command and of CommandTemplate is the same segment, 'command', and
   the request of the call goes to icingaweb2/director/command. *)
C5_CommandPath ==
    (call.op \in {"create", "get", "modify", "delete"}
     /\ call.object_type \in {Command, CommandTemplate}) =>
        /\ endpoint = <<"c","o","m","m","a","n","d">>
        /\ pc \in {"request", "done"}
        /\ startswith(requests[1].url_path, <<"i","c","i","n","g","a","w","e","b","2","/","d","i","r","e","c","t","o","r","/","c","o","m","m","a","n","d">>)
        /\ ~startswith(requests[1].url_path, <<"i","c","i","n","g","a","w","e","b","2","/","d","i","r","e","c","t","o","r","/","c","o","m","m","a","n","d","s">>)
        /\ ~startswith(requests[1].url_path, <<"i","c","i","n","g","a","w","e","b","2","/","d","i","r","e","c","t","o","r","/","c","o","m","m","a","n","d","t">>)

C5_Witness ==
    /\ pc = "request"
    /\ call.op = "modify"
    /\ call.object_type = CommandTemplate
    /\ endpoint = <<"c","o","m","m","a","n","d">>

-----------------------------------------------------------------------------
(* the list-mode path C6 states for a type of the taxonomy *)
ClaimedListPath(t) ==
    IF t \in {Command, CommandTemplate} THEN <<"c","o","m","m","a","n","d","s">>
    ELSE IF endswith(t, wTemplate)
    THEN lower(SubSeq(t, 1, Len(t) - Len(wTemplate))) \o <<"s","/","t","e","m","p","l","a","t","e","s">>
    ELSE IF t = Notification THEN <<"n","o","t","i","f","i","c","a","t","i","o","n","s","/","a","p","p","l","y","r","u","l","e","s">>
    ELSE IF t = ServiceApplyRule THEN <<"s","e","r","v","i","c","e","s","/","a","p","p","l","y","r","u","l","e","s">>
    ELSE lower(t) \o <<"s">>

(* C6: list on a type of the taxonomy resolves the endpoint 'commands' for
   Command and CommandTemplate, <lower-cased base name>s/templates for the
   other template types (hosts/templates for HostTemplate),
   notifications/applyrules for Notification, services/applyrules for
   ServiceApplyRule, and <lower-cased type name>s for the others (hosts for
   Host); the request of the call goes to that path. *)
C6_ListPaths ==
    (call.op = "list" /\ call.object_type \in AllowedTypes) =>
        /\ endpoint = ClaimedListPath(call.object_type)
        /\ call.object_type = HostTemplate => endpoint = <<"h","o","s","t","s","/","t","e","m","p","l","a","t","e","s">>
        /\ call.object_type = Host => endpoint = <<"h","o","s","t","s">>
        /\ pc \in {"request", "done"}
        /\ startswith(requests[1].url_path, base_url_path \o <<"/">> \o endpoint)

C6_Witness ==
    /\ pc = "request"
    /\ call.op = "list"
    /\ call.object_type = HostTemplate
    /\ requests[1].url_path = <<"i","c","i","n","g","a","w","e","b","2","/","d","i","r","e","c","t","o","r","/","h","o","s","t","s","/","t","e","m","p","l","a","t","e","s">>

-----------------------------------------------------------------------------
(* the payload C7 states for a create call; imports says whether the
   imports are set to the templates *)
ClaimedPayload(c, imports) ==
    LET given == IF Len(c.attrs) = 1 THEN DOMAIN c.attrs[1] ELSE {}
        keys == {"object_name", "object_type"} \cup given
                \cup (IF imports THEN {"imports"} ELSE {})
    IN [k \in keys |->
            IF k = "imports" /\ imports THEN c.templates[1]
            ELSE IF k \in given THEN c.attrs[1][k]
            ELSE IF k = "object_name" THEN c.name
            ELSE IF endswith(c.object_type, wTemplate) THEN "template"
            ELSE "object"]

(* the one request C7 states for a create call *)
ClaimedCreate(c, imports) ==
    <<[method |-> "POST",
       url_path |-> base_url_path \o <<"/">> \o endpoint,
       json |-> Some(ClaimedPayload(c, imports))]>>

(* C7 as stated: create on a supported type sends one request without
   selector whose payload is object_name and object_type, overlaid by the
   attrs, with imports set to the templates whenever templates is given. *)
C7_ImportsWhenProvided ==
    (call.op = "create" /\ pc = "request") =>
        requests = ClaimedCreate(call, Len(call.templates) = 1)

(* C7 as amended: create on a supported type sends one request without
   selector whose payload is object_name and object_type, overlaid by the
   attrs, with imports set to the templates whenever templates is given
   and is not empty. *)
C7_ImportsWhenNonEmpty ==
    (call.op = "create" /\ call.object_type \in AllowedTypes) =>
        /\ pc \in {"request", "done"}
        /\ requests = ClaimedCreate(call, Len(call.templates) = 1
                                          /\ call.templates[1] # <<>>)
        /\ \A i \in 1..Len(requests[1].url_path) : requests[1].url_path[i] # "?"

C7_Witness ==
    /\ pc = "request"
    /\ call.op = "create"
    /\ call.object_type = Host
    /\ call.templates = Some(<<"generic-host">>)
    /\ Len(call.attrs) = 1
    /\ DOMAIN call.attrs[1] = {"address"}
    /\ requests[1].json[1] =
           [object_name |-> call.name, object_type |-> "object",
            address |-> "127.0.0.1", imports |-> <<"generic-host">>]
    /\ requests[1].url_path = <<"i","c","i","n","g","a","w","e","b","2","/","d","i","r","e","c","t","o","r","/","h","o","s","t">>

-----------------------------------------------------------------------------
(* C8: an operation issues at most two requests; two only for get, modify
   or delete on ServiceApplyRule, the first being the lookup and the second
   the operation's request, sent only after the lookup's response was
   received with a success status and matched; no request is repeated;
   while the lookup is in flight nothing else was sent; a failed lookup is
   followed by no request. *)
C8_AtMostTwoRequests ==
    /\ Len(requests) <= 2
    /\ pc = "idle" => requests = <<>>
    /\ pc = "lookup" => Len(requests) = 1 /\ response = None
    /\ (pc = "request" /\ Len(requests) = 1) => response = None
    /\ Len(requests) = 2 =>
          /\ ApplyRuleCall
          /\ requests[1] = serviceapplyrule_request
          /\ requests[2] # requests[1]
          /\ Len(response) = 1
    /\ (pc = "request" /\ Len(requests) = 2) =>
          /\ Success(response[1].status)
          /\ response[1].body.kind = "listing"
          /\ Cardinality(Matching(response[1].body.objects, call.name)) = 1
    /\ (pc = "done" /\ ApplyRuleCall /\ Len(requests) = 1) => result.kind = "raise"

C8_Witness ==
    /\ pc = "done"
    /\ ApplyRuleCall
    /\ Len(requests) = 2
    /\ result.kind = "raise"
    /\ result.error = "RequestFailed"
    /\ result.status = 500

-----------------------------------------------------------------------------
(* C9: the lookup of get, modify and delete on ServiceApplyRule is sent to
   the url path that list(ServiceApplyRule) without query requests, the
   endpoint resolver's list-mode path of the type. *)
C9_LookupOnListPath ==
    (ApplyRuleCall /\ pc = "lookup") =>
        requests[1].url_path =
            list_url_path(get_endpoint(ServiceApplyRule, "list").val, None)

-----------------------------------------------------------------------------
(* C10: every get, modify and delete on ServiceApplyRule issues its own
   lookup first, and the id of the selector of its operation's request is
   the id of the object carrying the name in the listing received in that
   same call; it is not the id an earlier call resolved when the two
   differ. *)
C10_IdResolvedInSameCall ==
    (ApplyRuleCall /\ pc # "idle") =>
        /\ Len(requests) >= 1
        /\ requests[1] = serviceapplyrule_request
        /\ pc = "request" =>
              /\ \E i \in Matching(response[1].body.objects, call.name) :
                     requests[2].url_path =
                         selected_url_path(endpoint,
                             <<"i","d","=">> \o str(response[1].body.objects[i].id))
              /\ \A i \in Matching(response[1].body.objects, call.name) :
                     earlier_id # response[1].body.objects[i].id =>
                         requests[2].url_path #
                             selected_url_path(endpoint, <<"i","d","=">> \o str(earlier_id))

C10_Witness ==
    /\ pc = "request"
    /\ ApplyRuleCall
    /\ earlier_id = 7
    /\ requests[2].url_path = <<"i","c","i","n","g","a","w","e","b","2","/","d","i","r","e","c","t","o","r","/","s","e","r","v","i","c","e","?","i","d","=","4","2">>

====
